---------------------------- MODULE Spec2Model ----------------------------
(***************************************************************************)
(* A model of the aws-vpc-flow-log-appender decorator Lambda               *)
(* (src/decorator/index.js, src/decorator/geocode.js) and of its ingestor  *)
(* Lambda (src/unnamed/part_000).                                          *)
(*                                                                         *)
(* One invocation of exports.handler is a state machine: the handler       *)
(* starts the interface enumeration, parses the batch, waits for the       *)
(* enumeration, decorates the records one after the other (awaiting the    *)
(* geocode provider inside the loop), packages them and calls back.        *)
(*                                                                         *)
(* Text is a sequence of one-character strings, so that the regular        *)
(* expressions of the source are matched character by character.  A        *)
(* JavaScript value carries its type in the field t.                       *)
(***************************************************************************)
EXTENDS Integers, Sequences, FiniteSets, TLC

VARIABLES
  event,      \* event.records: the input batch handed to exports.handler
  env,        \* process.env.GEOLOCATION_ENABLED
  pc,         \* where the invocation of exports.handler stands
  ec2,        \* the describeNetworkInterfaces call: idle, pending, resolved, rejected
  interfaces, \* what describeNetworkInterfaces resolved with (line 83)
  mapping,    \* results[0]: the ENI to security group mapping
  records,    \* results[1]: the extracted records, decorated in place
  idx,        \* decorateRecords: index of the record the loop is at
  http,       \* the geocode request in flight (the address asked), or <<>>
  calls,      \* per record, the http.get requests issued for it
  replies,    \* per record, what the geocode provider answered
  output,     \* the array packageRecords built
  callbacks,  \* the invocations of the Lambda callback, in order
  \* The ingestor (src/unnamed/part_000):
  awslogs,    \* event.awslogs.data: the payload handed to the ingestor
  ipc,        \* where the invocation of the ingestor's exports.handler stands
  position,   \* createRecordsFromEvents: index of the event forEach is at
  firehose,   \* createRecordsFromEvents: its array records
  putCalls,   \* the putRecordBatch calls made, each with its Records and state
  context     \* the calls of context.succeed and context.fail, in order

ingestorVars == <<awslogs, ipc, position, firehose, putCalls, context>>

vars == <<event, env, pc, ec2, interfaces, mapping, records, idx, http, calls, replies,
          output, callbacks, ingestorVars>>

-----------------------------------------------------------------------------
(* JavaScript values *)

Undefined == [t |-> "undefined"]
JNull     == [t |-> "null"]
NaN       == [t |-> "NaN"]
JStr(s)   == [t |-> "string", v |-> s]
JNum(n)   == [t |-> "number", v |-> n]
JArr(a)   == [t |-> "array",  v |-> a]
JObj(f)   == [t |-> "object", v |-> f]

\* obj[key] of JavaScript: a property a string primitive or an object lacks
\* reads as undefined.
Get(obj, key) ==
  IF obj.t = "object" /\ key \in DOMAIN obj.v THEN obj.v[key] ELSE Undefined

\* obj[key] = val in strict mode ('use strict', index.js line 16): creating a
\* property on a string primitive throws a TypeError.
CanSet(obj) == obj.t = "object"
Set(obj, key, val) ==
  JObj([k \in DOMAIN obj.v \cup {key} |-> IF k = key THEN val ELSE obj.v[k]])

-----------------------------------------------------------------------------
(* Text *)

Digit == {"0", "1", "2", "3", "4", "5", "6", "7", "8", "9"}
Lower == {"a", "b", "c", "d", "e", "f", "g", "h", "i", "j", "k", "l", "m",
          "n", "o", "p", "q", "r", "s", "t", "u", "v", "w", "x", "y", "z"}
Upper == {"A", "B", "C", "D", "E", "F", "G", "H", "I", "J", "K", "L", "M",
          "N", "O", "P", "Q", "R", "S", "T", "U", "V", "W", "X", "Y", "Z"}
WordChar == Digit \cup Lower \cup Upper \cup {"_"}
LineTerminator == {"\n", "\r"}

\* The character classes of the two regular expressions: \d, \w, the dot,
\* [6-9] and [0-1].
ClassHas(cls, c) ==
  CASE cls = "d" -> c \in Digit
    [] cls = "w" -> c \in WordChar
    [] cls = "." -> c \notin LineTerminator
    [] cls = "6-9" -> c \in {"6", "7", "8", "9"}
    [] cls = "0-1" -> c \in {"0", "1"}

HasPrefixAt(s, i, lit) ==
  /\ i + Len(lit) - 1 <= Len(s)
  /\ SubSeq(s, i, i + Len(lit) - 1) = lit

\* The number of characters of class cls that s holds from position i on, at
\* most limit (limit < 0: no limit).
RECURSIVE Run(_, _, _, _)
Run(s, i, cls, limit) ==
  IF limit = 0 \/ i > Len(s) \/ ~ClassHas(cls, s[i]) THEN 0
  ELSE 1 + Run(s, i + 1, cls, limit - 1)

-----------------------------------------------------------------------------
(* Regular expressions: a sequence of atoms, matched with backtracking *)

Rep(cls, lo, hi) == [kind |-> "rep", cls |-> cls, lo |-> lo, hi |-> hi, alts |-> <<>>]
Plus(cls) == Rep(cls, 1, -1)
Alt(alts) == [kind |-> "alt", cls |-> "", lo |-> 0, hi |-> 0, alts |-> alts]
Lit(s)    == Alt(<<s>>)

\* The element of a one-element set: The({e(x) : x \in {v}}) is e(v), with v
\* evaluated once.
The(S) == CHOOSE x \in S : TRUE

\* A position is the number of characters consumed.  AtomEnds: the positions
\* atom k of re can end at when it starts at position p of s.
AtomEnds(re, s, p, k) ==
  IF re[k].kind = "rep"
  THEN {p + n : n \in re[k].lo .. Run(s, p + 1, re[k].cls, re[k].hi)}
  ELSE {p + Len(re[k].alts[a]) :
          a \in {b \in 1..Len(re[k].alts) : HasPrefixAt(s, p + 1, re[k].alts[b])}}

\* The positions atoms k1..k2 of re can end at when they start at position p.
RECURSIVE Ends(_, _, _, _, _)
Ends(re, s, p, k1, k2) ==
  IF k1 > k2 THEN {p}
  ELSE IF k1 = k2 THEN AtomEnds(re, s, p, k1)
  ELSE UNION {Ends(re, s, q, ((k1 + k2) \div 2) + 1, k2) :
                q \in Ends(re, s, p, k1, (k1 + k2) \div 2)}

\* The end a backtracking matcher settles on for atom k started at p, when
\* the rest of the pattern matches from the positions T only: a quantifier is
\* greedy (the longest run first), alternatives are tried in order.
AtomBest(re, s, p, k, T) ==
  IF re[k].kind = "rep"
  THEN CHOOSE q \in AtomEnds(re, s, p, k) \cap T :
         \A r \in AtomEnds(re, s, p, k) \cap T : r <= q
  ELSE LET ok == {b \in 1..Len(re[k].alts) :
                    /\ HasPrefixAt(s, p + 1, re[k].alts[b])
                    /\ p + Len(re[k].alts[b]) \in T}
       IN  p + Len(re[k].alts[CHOOSE b \in ok : \A c \in ok : b <= c])

\* The ends of atoms k1..k2 in the first match a backtracking matcher finds
\* from position p that ends in T (there is one): the choice at an atom is
\* the first one, in the matcher's order, that lets the rest match.
RECURSIVE Path(_, _, _, _, _, _)
Path(re, s, p, k1, k2, T) ==
  IF k1 = k2 THEN <<AtomBest(re, s, p, k1, T)>>
  ELSE The({The({The({left \o Path(re, s, left[Len(left)], mid + 1, k2, T)
                      : left \in {Path(re, s, p, k1, mid, T1)}})
                 : T1 \in {{q \in Ends(re, s, p, k1, mid) :
                              Ends(re, s, q, mid + 1, k2) \cap T # {}}}})
            : mid \in {(k1 + k2) \div 2}})

\* re matched against s from its first character on (every pattern of the
\* source starts with ^): ok, and the position of the last character each
\* atom consumed.
Match(re, s) ==
  The({IF T = {} THEN [ok |-> FALSE, ends |-> <<>>]
       ELSE [ok |-> TRUE, ends |-> Path(re, s, 0, 1, Len(re), T)]
       : T \in {Ends(re, s, 0, 1, Len(re))}})

-----------------------------------------------------------------------------
(* The literals of the regular expressions *)

ENI_     == <<"e", "n", "i", "-">>
ACCEPT   == <<"A", "C", "C", "E", "P", "T">>
REJECT   == <<"R", "E", "J", "E", "C", "T">>
OK       == <<"O", "K">>
NODATA   == <<"N", "O", "D", "A", "T", "A">>
SKIPDATA == <<"S", "K", "I", "P", "D", "A", "T", "A">>
INBOUND  == <<"i", "n", "b", "o", "u", "n", "d">>
OUTBOUND == <<"o", "u", "t", "b", "o", "u", "n", "d">>

-----------------------------------------------------------------------------
(* index.js line 43: the regular expression that parses a flow log line *)

\* \d{1,3}.\d{1,3}.\d{1,3}.\d{1,3}: the dots are not escaped, each matches any
\* character but a line terminator.
AddrAtoms ==
  <<Rep("d", 1, 3), Rep(".", 1, 1), Rep("d", 1, 3), Rep(".", 1, 1),
    Rep("d", 1, 3), Rep(".", 1, 1), Rep("d", 1, 3)>>

\* ^(\d) (\d+) (eni-\w+) (addr) (addr) (\d+) x 7 (ACCEPT|REJECT) (OK|NODATA|SKIPDATA)
\* The pattern starts with ^ and has no $: the match starts at position 1 and
\* may end before the end of the text.
parser ==
  <<Rep("d", 1, 1), Lit(<<" ">>), Plus("d"), Lit(<<" ">>),
    Lit(ENI_), Plus("w"), Lit(<<" ">>)>>
  \o AddrAtoms \o <<Lit(<<" ">>)>> \o AddrAtoms \o <<Lit(<<" ">>)>>
  \o <<Plus("d"), Lit(<<" ">>), Plus("d"), Lit(<<" ">>), Plus("d"), Lit(<<" ">>),
       Plus("d"), Lit(<<" ">>), Plus("d"), Lit(<<" ">>), Plus("d"), Lit(<<" ">>),
       Plus("d"), Lit(<<" ">>)>>
  \o <<Alt(<<ACCEPT, REJECT>>), Lit(<<" ">>), Alt(<<OK, NODATA, SKIPDATA>>)>>

\* The first and the last atom of each of the 14 capture groups of parser.
GroupAtoms ==
  <<<<1, 1>>, <<3, 3>>, <<5, 6>>, <<8, 14>>, <<16, 22>>, <<24, 24>>, <<26, 26>>,
    <<28, 28>>, <<30, 30>>, <<32, 32>>, <<34, 34>>, <<36, 36>>, <<38, 38>>,
    <<40, 40>>>>

\* parser.exec(text): null (matched FALSE), or the match with its groups 1..14.
\* (r is the one match of the text, computed once.)
exec(text) ==
  The({LET from(g) == IF GroupAtoms[g][1] = 1 THEN 1
                      ELSE r.ends[GroupAtoms[g][1] - 1] + 1
           to(g)   == r.ends[GroupAtoms[g][2]]
       IN  IF r.ok
           THEN [matched |-> TRUE,
                 groups  |-> [g \in 1..Len(GroupAtoms) |->
                                SubSeq(text, from(g), to(g))]]
           ELSE [matched |-> FALSE, groups |-> <<>>]
       : r \in {Match(parser, text)}})

-----------------------------------------------------------------------------
(* Conversions *)

RECURSIVE JoinFrom(_, _, _)
\* The texts from the i-th on, with sep between them.
JoinFrom(texts, sep, i) ==
  IF i > Len(texts) THEN <<>>
  ELSE IF i = Len(texts) THEN texts[i]
  ELSE texts[i] \o sep \o JoinFrom(texts, sep, i + 1)

Digits == <<"0", "1", "2", "3", "4", "5", "6", "7", "8", "9">>
DigitValue(c) == (CHOOSE i \in 1..Len(Digits) : Digits[i] = c) - 1

\* Number(text) for a text of decimal digits: its value; leading zeros are
\* lost.  (Every digit text of the model stays far below 2^31.)
RECURSIVE NumberOfFirst(_, _)
\* The value of the first n digits of text.
NumberOfFirst(text, n) ==
  IF n = 0 THEN 0 ELSE 10 * NumberOfFirst(text, n - 1) + DigitValue(text[n])

Number(text) == NumberOfFirst(text, Len(text))

\* String(n) of a non-negative integer: its decimal digits.
RECURSIVE NumberToString(_)
NumberToString(n) ==
  IF n < 10 THEN <<Digits[n + 1]>>
  ELSE NumberToString(n \div 10) \o <<Digits[(n % 10) + 1]>>

\* A Firehose payload is the base64 form of a text; the model names a payload
\* by the text it decodes to, tagged so that a payload is never taken for the
\* text itself.
Base64(text) == [b64 |-> text]
\* Buffer.from(data, 'base64').toString('utf8')
Base64Decode(data) == data.v.b64

-----------------------------------------------------------------------------
(* index.js lines 103-143 *)

matched(m) ==
  JObj(  ("@timestamp"   :> [t |-> "date"])
      @@ ("version"      :> JNum(Number(m[1])))
      @@ ("account-id"   :> JNum(Number(m[2])))
      @@ ("interface-id" :> JStr(m[3]))
      @@ ("srcaddr"      :> JStr(m[4]))
      @@ ("destaddr"     :> JStr(m[5]))
      @@ ("srcport"      :> JNum(Number(m[6])))
      @@ ("dstport"      :> JNum(Number(m[7])))
      @@ ("protocol"     :> JNum(Number(m[8])))
      @@ ("packets"      :> JNum(Number(m[9])))
      @@ ("bytes"        :> JNum(Number(m[10])))
      @@ ("start"        :> JNum(Number(m[11])))
      @@ ("end"          :> JNum(Number(m[12])))
      @@ ("action"       :> JStr(m[13]))
      @@ ("log-status"   :> JStr(m[14])))

\* Lines 105-141 for one record: flowLogData is decoded (line 106) and
\* matched once (line 107).
extractRecord(record) ==
  The({IF match.matched
       THEN [id |-> record.recordId, data |-> matched(match.groups), error |-> FALSE]
       ELSE [id |-> record.recordId, data |-> record.data, error |-> TRUE]
       : match \in {exec(flowLogData) : flowLogData \in {Base64Decode(record.data)}}})

extractRecords(recs) == [i \in 1..Len(recs) |-> extractRecord(recs[i])]

-----------------------------------------------------------------------------
(* index.js lines 149-153 *)

\* /(^127\.)|(^10\.)|(^172\.1[6-9]\.)|(^172\.2[0-9]\.)|(^172\.3[0-1]\.)|(^192\.168\.)/
rfc1918 ==
  <<<<Lit(<<"1", "2", "7", ".">>)>>,
    <<Lit(<<"1", "0", ".">>)>>,
    <<Lit(<<"1", "7", "2", ".", "1">>), Rep("6-9", 1, 1), Lit(<<".">>)>>,
    <<Lit(<<"1", "7", "2", ".", "2">>), Rep("d", 1, 1), Lit(<<".">>)>>,
    <<Lit(<<"1", "7", "2", ".", "3">>), Rep("0-1", 1, 1), Lit(<<".">>)>>,
    <<Lit(<<"1", "9", "2", ".", "1", "6", "8", ".">>)>>>>

\* isRfc1918Address without the alternative ^172\.3[0-1]\. of its pattern.
isRfc1918AddressTo29(ipAddress) ==
  \E a \in {1, 2, 3, 4, 6} : Match(rfc1918[a], ipAddress).ok

\* ipAddress.match(re) !== null, for a text ipAddress.
isRfc1918Address(ipAddress) ==
  \E a \in 1..Len(rfc1918) : Match(rfc1918[a], ipAddress).ok

-----------------------------------------------------------------------------
(* index.js lines 82-93 *)

RECURSIVE PrimariesFrom(_, _)
PrimariesFrom(addresses, a) ==
  IF a > Len(addresses) THEN <<>>
  ELSE (IF addresses[a].Primary THEN <<addresses[a].PrivateIpAddress>> ELSE <<>>)
       \o PrimariesFrom(addresses, a + 1)

\* PrivateIpAddresses[?Primary].PrivateIpAddress: the addresses flagged
\* primary, in order, as an array.
Primaries(addresses) == PrimariesFrom(addresses, 1)

\* The jmespath projection of the describeNetworkInterfaces result.
buildEniToSecurityGroupMapping(described) ==
  [i \in 1..Len(described) |->
     [interfaceId      |-> JStr(described[i].NetworkInterfaceId),
      securityGroupIds |-> JArr([g \in 1..Len(described[i].Groups) |->
                                   described[i].Groups[g].GroupId]),
      ipAddress        |-> JArr(Primaries(described[i].PrivateIpAddresses))]]

-----------------------------------------------------------------------------
(* index.js lines 163-197: the body of the loop of decorateRecords *)

\* find(mapping, { 'interfaceId': id }) of lodash: the first entry whose
\* interfaceId is id, or undefined.
find(map, id) ==
  LET hits == {i \in 1..Len(map) : map[i].interfaceId = id}
  IN  IF hits = {} THEN Undefined
      ELSE map[CHOOSE i \in hits : \A j \in hits : i <= j]

\* Array.prototype.toString: the elements joined by commas.
Join(texts) == JoinFrom(texts, <<",">>, 1)

\* text === other: a string never equals an array.
StrictEquals(text, other) == other.t = "string" /\ text.v = other.v

\* text == other, the loose equality of a string with an array (compared by
\* its toString), a string, or null.
LooseEquals(text, other) ==
  CASE other.t = "array"  -> text.v = Join(other.v)
    [] other.t = "string" -> text.v = other.v
    [] OTHER              -> FALSE

\* Lines 167-173: the security groups and the direction of a record whose
\* interface the mapping knows; eniData is an entry of the mapping.
withEniData(data, eniData) ==
  Set(Set(data, "security-group-ids", eniData.securityGroupIds),
      "direction",
      IF LooseEquals(Get(data, "destaddr"), eniData.ipAddress)
      THEN JStr(INBOUND) ELSE JStr(OUTBOUND))

\* Number(v) for the values a geocode body holds.
ToNumber(v) ==
  CASE v.t = "number" -> v
    [] v.t = "null"   -> JNum(0)
    [] OTHER          -> NaN

\* Lines 182-190: the geo data appended to the record; geo is null or the
\* object the geocoder resolved with.
withGeo(data, geo) ==
  LET truthy == geo.t = "object"
      str(k) == IF truthy THEN Get(geo, k) ELSE JStr(<<>>)
      num(k) == IF truthy THEN ToNumber(Get(geo, k)) ELSE JNum(0)
  IN  Set(Set(Set(Set(Set(Set(data,
        "source-country-code", str("country_code")),
        "source-country-name", str("country_name")),
        "source-region-code",  str("region_code")),
        "source-region-name",  str("region_name")),
        "source-city",         str("city")),
        "source-location",
        JObj(("lat" :> num("latitude")) @@ ("lon" :> num("longitude"))))

-----------------------------------------------------------------------------
(* geocode.js lines 38-73: how the promise settles for one provider reply *)

\* JSON.parse(data): the value, or a SyntaxError.
JSONParse(body) ==
  IF body.json THEN [threw |-> FALSE, value |-> body.value]
  ELSE [threw |-> TRUE, value |-> Undefined]

\* geocode with the 403 of the rate limit rejected like any other bad status.
geocodeRejecting403(reply) ==
  IF reply.kind = "error" THEN [rejected |-> TRUE, value |-> Undefined]
  ELSE IF reply.statusCode # 200 THEN [rejected |-> TRUE, value |-> Undefined]
  ELSE LET json == JSONParse(reply.body)
       IN  IF json.threw THEN [rejected |-> TRUE, value |-> Undefined]
           ELSE [rejected |-> FALSE, value |-> json.value]

geocode(reply) ==
  IF reply.kind = "error" THEN [rejected |-> TRUE, value |-> Undefined]
  ELSE IF reply.statusCode = 403 THEN [rejected |-> FALSE, value |-> JNull]
  ELSE IF reply.statusCode # 200 THEN [rejected |-> TRUE, value |-> Undefined]
  ELSE LET json == JSONParse(reply.body)
       IN  IF json.threw THEN [rejected |-> TRUE, value |-> Undefined]
           ELSE [rejected |-> FALSE, value |-> json.value]

-----------------------------------------------------------------------------
(* index.js lines 206-234 *)

\* JSON.stringify(data): a property whose value is undefined is left out, NaN
\* is written as null.  The JSON text is named by the value it denotes.
RECURSIVE JSONValue(_)
JSONValue(v) ==
  CASE v.t = "object" ->
         JObj([k \in {x \in DOMAIN v.v : v.v[x].t # "undefined"} |-> JSONValue(v.v[k])])
    [] v.t = "NaN" -> JNull
    [] OTHER -> v
JSONStringify(data) == [json |-> JSONValue(data)]

packageRecord(record) ==
  IF record.error
  THEN [recordId |-> record.id, result |-> "ProcessingFailed", data |-> record.data]
  ELSE [recordId |-> record.id, result |-> "Ok",
        data |-> JStr(Base64(JSONStringify(record.data)))]

packageRecords(recs) == [i \in 1..Len(recs) |-> packageRecord(recs[i])]

-----------------------------------------------------------------------------
(* Inputs: the batches, the interfaces and the provider replies *)

MaxBatch      == 2   \* records of a batch
MaxInterfaces == 2   \* interfaces describeNetworkInterfaces returns

\* recordId of the i-th record of a batch.
RecordIds == <<"id1", "id2", "id3", "id4">>

\* The fields of a line, separated by single spaces.
JoinSpace(fields) == JoinFrom(fields, <<" ">>, 1)

EniA  == <<"e", "n", "i", "-", "a">>
EniB  == <<"e", "n", "i", "-", "b">>
EniAB == <<"e", "n", "i", "-", "a", "b">>
Addr5 == <<"1", "0", ".", "0", ".", "0", ".", "5">>
Addr6 == <<"1", "0", ".", "0", ".", "0", ".", "6">>

\* 2 123 <eni> <src> <dst> 443 80 6 1 40 100 160 ACCEPT OK
Fields(eni, src, dst) ==
  <<<<"2">>, <<"1", "2", "3">>, eni, src, dst, <<"4", "4", "3">>, <<"8", "0">>, <<"6">>, <<"1">>,
    <<"4", "0">>, <<"1", "0", "0">>, <<"1", "6", "0">>, ACCEPT, OK>>

\* Source addresses on both sides of every range isRfc1918Address tests.
SrcAddrs ==
  {<<"8", ".", "8", ".", "8", ".", "8">>,
   <<"1", "0", ".", "1", ".", "2", ".", "3">>,
   <<"1", "2", "7", ".", "0", ".", "0", ".", "1">>,
   <<"1", "7", "2", ".", "1", "5", ".", "0", ".", "1">>,
   <<"1", "7", "2", ".", "1", "6", ".", "0", ".", "1">>,
   <<"1", "7", "2", ".", "3", "1", ".", "0", ".", "1">>,
   <<"1", "7", "2", ".", "3", "2", ".", "0", ".", "1">>,
   <<"1", "9", "2", ".", "1", "6", "8", ".", "1", ".", "1">>}

Octets31 == <<"1", "7", "2", ".", "3", "1", ".", "0", ".", "1">>
Octets32 == <<"1", "7", "2", ".", "3", "2", ".", "0", ".", "1">>
Public == <<"8", ".", "8", ".", "8", ".", "8">>
Private == <<"1", "0", ".", "1", ".", "2", ".", "3">>

\* A line without its log-status, and a line that is no flow log at all.
NoStatusLine == JoinSpace(SubSeq(Fields(EniA, Public, Addr5), 1, 13))
GarbageLine  == <<"h", "e", "l", "l", "o">>

Lines ==
  {JoinSpace(Fields(EniA, src, Addr5)) : src \in SrcAddrs}
  \cup {JoinSpace(Fields(EniB, Private, Addr5)),
        JoinSpace(Fields(EniA, Private, Addr6)),
        NoStatusLine, GarbageLine}

\* The batches of at most MaxBatch records whose lines are drawn from lines.
Batches(lines) ==
  UNION {{[i \in 1..n |-> [recordId |-> RecordIds[i], data |-> JStr(Base64(ls[i]))]]
          : ls \in [1..n -> lines]} : n \in 0..MaxBatch}

Interface(id, groups, addresses) ==
  [NetworkInterfaceId |-> id,
   Groups             |-> [g \in 1..Len(groups) |-> [GroupId |-> groups[g]]],
   PrivateIpAddresses |-> [a \in 1..Len(addresses) |->
                             [Primary |-> addresses[a][1],
                              PrivateIpAddress |-> addresses[a][2]]]]

Sg1 == <<"s", "g", "-", "1">>
Sg2 == <<"s", "g", "-", "2">>

\* Interfaces with one, no and two addresses flagged primary, and interfaces
\* with other ids (one of them an extension of eni-a).
InterfacePool ==
  {Interface(EniA, <<Sg1>>, <<<<TRUE, Addr5>>>>),
   Interface(EniA, <<Sg1, Sg2>>, <<<<FALSE, Addr6>>, <<TRUE, Addr5>>>>),
   Interface(EniA, <<Sg2>>, <<<<FALSE, Addr5>>>>),
   Interface(EniA, <<Sg1>>, <<<<TRUE, Addr5>>, <<TRUE, Addr6>>>>),
   Interface(EniAB, <<Sg2>>, <<<<TRUE, Addr5>>>>),
   Interface(EniB, <<>>, <<<<TRUE, Addr6>>>>)}

\* What describeNetworkInterfaces may return: at most MaxInterfaces
\* interfaces, no two with the same id.
InterfaceLists ==
  UNION {{l \in [1..n -> InterfacePool] :
            \A i, j \in 1..n : i # j => l[i].NetworkInterfaceId # l[j].NetworkInterfaceId}
         : n \in 0..MaxInterfaces}

GeoFull ==
  JObj(  ("ip"           :> JStr(Public))
      @@ ("country_code" :> JStr(<<"U", "S">>))
      @@ ("country_name" :> JStr(<<"U", "S", "A">>))
      @@ ("region_code"  :> JStr(<<"C", "A">>))
      @@ ("region_name"  :> JStr(<<"C", "a", "l", "i", "f">>))
      @@ ("city"         :> JStr(<<"S", "F">>))
      @@ ("latitude"     :> JNum(37))
      @@ ("longitude"    :> JNum(-122)))

NoBody      == [json |-> FALSE, value |-> Undefined]
BodyFull    == [json |-> TRUE,  value |-> GeoFull]
BodyNoGeo   == [json |-> TRUE,  value |-> JObj(("ip" :> JStr(Public)))]
BodyGarbage == [json |-> FALSE, value |-> Undefined]

NoReply == [kind |-> "none", statusCode |-> 0, body |-> NoBody]

\* What the provider may answer a request with: a transport error, or a
\* response with a status code and a body.
Replies ==
  {[kind |-> "error",    statusCode |-> 0,   body |-> NoBody],
   [kind |-> "response", statusCode |-> 403, body |-> NoBody],
   [kind |-> "response", statusCode |-> 500, body |-> NoBody],
   [kind |-> "response", statusCode |-> 200, body |-> BodyFull],
   [kind |-> "response", statusCode |-> 200, body |-> BodyNoGeo],
   [kind |-> "response", statusCode |-> 200, body |-> BodyGarbage]}

-----------------------------------------------------------------------------
(* One invocation of exports.handler, index.js lines 243-262 *)

Idle(batches) ==
  /\ event \in batches
  /\ env \in {"true", "false"}
  /\ pc = "start"
  /\ ec2 = "idle"
  /\ interfaces = <<>>
  /\ mapping = <<>>
  /\ records = <<>>
  /\ idx = 0
  /\ http = <<>>
  /\ calls = [i \in 1..Len(event) |-> 0]
  /\ replies = [i \in 1..Len(event) |-> NoReply]
  /\ output = <<>>
  /\ callbacks = <<>>
  /\ awslogs = [gzip |-> FALSE, json |-> FALSE, logEvents |-> Undefined]
  /\ ipc = "idle"
  /\ position = 0
  /\ firehose = <<>>
  /\ putCalls = <<>>
  /\ context = <<>>

Init == Idle(Batches(Lines))

\* A catch that logs the error and does not call back.
CatchSilently(error) ==
  /\ pc' = "done"
  /\ UNCHANGED callbacks

\* .catch(error => callback(error)), line 258.
Catch(error) ==
  /\ pc' = "done"
  /\ callbacks' = Append(callbacks, [error |-> error, records |-> <<>>])

\* Line 246, first element of the array: buildEniToSecurityGroupMapping() runs
\* to its await, the describeNetworkInterfaces request is out.
Handler ==
  /\ pc = "start"
  /\ pc' = "extract"
  /\ ec2' = "pending"
  /\ UNCHANGED <<ingestorVars, event, env, interfaces, mapping, records, idx, http, calls,
                 replies, output, callbacks>>

\* Line 246, second element: extractRecords(event.records) runs to its end
\* before any reply can be handled.
ExtractRecords ==
  /\ pc = "extract"
  /\ records' = extractRecords(event)
  /\ pc' = "all"
  /\ UNCHANGED <<ingestorVars, event, env, ec2, interfaces, mapping, idx, http, calls, replies, output,
                 callbacks>>

\* describeNetworkInterfaces answers: the mapping is built, Promise.all
\* resolves and decorateRecords starts (lines 83-92, 247-249).
DescribeResolve ==
  /\ pc = "all"
  /\ ec2 = "pending"
  /\ interfaces' \in InterfaceLists
  /\ mapping' = buildEniToSecurityGroupMapping(interfaces')
  /\ ec2' = "resolved"
  /\ idx' = 1
  /\ pc' = "decorate"
  /\ UNCHANGED <<ingestorVars, event, env, records, http, calls, replies, output, callbacks>>

\* describeNetworkInterfaces fails: the await of line 83 throws, Promise.all
\* rejects and the catch of line 258 runs.
DescribeReject ==
  /\ pc = "all"
  /\ ec2 = "pending"
  /\ ec2' = "rejected"
  /\ Catch("ec2")
  /\ UNCHANGED <<ingestorVars, event, env, interfaces, mapping, records, idx, http, calls, replies,
                 output>>

\* Lines 179-192 for the record at idx, whose data is data: the geo fields
\* are set and the loop goes on; on a string the first assignment throws.
AppendGeo(data, geo) ==
  IF CanSet(data)
  THEN /\ records' = [records EXCEPT ![idx].data = withGeo(data, geo)]
       /\ idx' = idx + 1
       /\ pc' = "decorate"
       /\ UNCHANGED callbacks
  ELSE /\ Catch("TypeError")
       /\ UNCHANGED <<records, idx>>

\* Lines 166-177 for the record at idx: the interface lookup, then either no
\* geocode call (geo is null) or the request of geocode.js line 40.
DecorateRecord ==
  /\ pc = "decorate"
  /\ idx <= Len(records)
  /\ LET record  == records[idx]
         eniData == find(mapping, Get(record.data, "interface-id"))
         data    == IF eniData # Undefined
                    THEN withEniData(record.data, eniData) ELSE record.data
         srcaddr == Get(data, "srcaddr")
     IN  IF env = "false"
         THEN AppendGeo(data, JNull) /\ UNCHANGED <<http, calls>>
         ELSE IF srcaddr.t # "string"
         THEN Catch("TypeError") /\ UNCHANGED <<records, idx, http, calls>>
         ELSE IF isRfc1918Address(srcaddr.v)
         THEN AppendGeo(data, JNull) /\ UNCHANGED <<http, calls>>
         ELSE /\ records' = [records EXCEPT ![idx].data = data]
              /\ http' = srcaddr.v
              /\ calls' = [calls EXCEPT ![idx] = @ + 1]
              /\ pc' = "geocode"
              /\ UNCHANGED <<idx, callbacks>>
  /\ UNCHANGED <<ingestorVars, event, env, ec2, interfaces, mapping, replies, output>>

\* The provider answers the request in flight: the promise of geocode.js
\* settles and the await of line 177 returns or throws.
GeocodeReply ==
  /\ pc = "geocode"
  /\ \E reply \in Replies :
       LET settled == geocode(reply)
       IN  /\ replies' = [replies EXCEPT ![idx] = reply]
           /\ IF settled.rejected
              THEN Catch("geocode") /\ UNCHANGED <<records, idx>>
              ELSE AppendGeo(records[idx].data, settled.value)
  /\ http' = <<>>
  /\ UNCHANGED <<ingestorVars, event, env, ec2, interfaces, mapping, calls, output>>

\* packageRecords started without waiting for the loop of decorateRecords.
PackageRecordsEarly ==
  /\ pc = "decorate"
  /\ output' = packageRecords(records)
  /\ pc' = "package"
  /\ UNCHANGED <<ingestorVars, event, env, ec2, interfaces, mapping, records, idx, http, calls, replies,
                 callbacks>>

\* The loop is over: packageRecords (lines 251-253).
PackageRecords ==
  /\ pc = "decorate"
  /\ idx > Len(records)
  /\ output' = packageRecords(records)
  /\ pc' = "package"
  /\ UNCHANGED <<ingestorVars, event, env, ec2, interfaces, mapping, records, idx, http, calls, replies,
                 callbacks>>

\* callback(null, { records: records }), line 256.
Callback ==
  /\ pc = "package"
  /\ callbacks' = Append(callbacks, [error |-> "null", records |-> output])
  /\ pc' = "done"
  /\ UNCHANGED <<ingestorVars, event, env, ec2, interfaces, mapping, records, idx, http, calls, replies,
                 output>>

Next ==
  \/ Handler
  \/ ExtractRecords
  \/ DescribeResolve
  \/ DescribeReject
  \/ DecorateRecord
  \/ GeocodeReply
  \/ PackageRecords
  \/ Callback

Spec == Init /\ [][Next]_vars

\* The event loop runs every continuation that is ready, and every external
\* call is taken to complete: a step that can be taken is taken.
FairSpec == Spec /\ WF_vars(Next)

-----------------------------------------------------------------------------
(* The parser alone: extractRecords applied to one-record batches *)

\* For each of the 14 fields, other texts the field may hold.
FieldAlts ==
  <<{<<"1", "2">>,
     <<"x">>},
    {<<"0", "1", "2">>,
     <<"1", "2", "a">>},
    {<<"e", "n", "i", "-", "4", "f", "f", "3", "6", "1", "8", "a">>,
     <<"e", "n", "i", "-">>,
     <<"e", "n", "x", "-", "a">>,
     <<"e", "n", "i", "-", "a", "_", "b">>},
    {<<"8", "x", "8", "x", "8", "x", "8">>,
     <<"8", ".", "8", ".", "8">>,
     <<"1", "2", "3", "4", ".", "8", ".", "8", ".", "8">>,
     <<"0", "0", "8", ".", "8", ".", "8", ".", "8">>},
    {<<"1", "0", ".", "0", ".", "0">>,
     <<"1", "2", "3", "4", "5", "6", "7">>},
    {<<"0", "4", "4", "3">>,
     <<"-", "1">>},
    {<<"0", "8", "0">>},
    {<<"t", "c", "p">>},
    {<<"-">>},
    {<<"0", "0">>},
    {<<"0", "1", "0", "0">>},
    {<<"1", "e", "3">>},
    {<<"R", "E", "J", "E", "C", "T">>,
     <<"D", "R", "O", "P">>,
     <<"a", "c", "c", "e", "p", "t">>},
    {<<"N", "O", "D", "A", "T", "A">>,
     <<"S", "K", "I", "P", "D", "A", "T", "A">>,
     <<"O", "K", "A", "Y">>,
     <<"o", "k">>}>>

BaseFields == Fields(EniA, Public, Addr5)

\* What may follow the last field: nothing, the newline the ingestor appends,
\* another token, one more character.
Trailers == {<<>>, <<"\n">>, <<" ", "e", "x", "t", "r", "a">>, <<"x">>}

\* Lines that differ from a well-formed line in one field or in their end,
\* and lines with a field missing, a leading space, a doubled space, nothing.
WideLines ==
  {JoinSpace(BaseFields) \o t : t \in Trailers}
  \cup UNION {{JoinSpace([BaseFields EXCEPT ![f] = a]) \o t
               : a \in FieldAlts[f], t \in {<<>>, <<" ", "e", "x", "t", "r", "a">>}} : f \in 1..14}
  \cup {NoStatusLine, GarbageLine, <<>>,
        <<" ">> \o JoinSpace(BaseFields),
        JoinSpace([BaseFields EXCEPT ![6] = <<>>])}

SingleBatches(lines) ==
  {<<[recordId |-> RecordIds[1], data |-> JStr(Base64(l))]>> : l \in lines}

ParseInit == Idle(SingleBatches(WideLines))
ParseNext == Handler \/ ExtractRecords
ParseSpec == ParseInit /\ [][ParseNext]_vars

-----------------------------------------------------------------------------
(* The flow-log grammar, as the specification words it *)

\* The decoded line of the i-th input record.
LineOf(i) == Base64Decode(event[i].data)

Spaces(line) == {i \in 1..Len(line) : line[i] = " "}

\* The f-th of the texts that single spaces separate in line.
Field(line, f) ==
  LET before(i) == Cardinality({j \in Spaces(line) : j < i})
      from == IF f = 1 THEN 1
              ELSE (CHOOSE i \in Spaces(line) : before(i) = f - 2) + 1
      to   == IF f = Cardinality(Spaces(line)) + 1 THEN Len(line)
              ELSE (CHOOSE i \in Spaces(line) : before(i) = f - 1) - 1
  IN  SubSeq(line, from, to)

IsInteger(text) == text # <<>> /\ \A i \in 1..Len(text) : text[i] \in Digit

\* eni-[A-Za-z0-9]+
IsInterfaceId(text) ==
  /\ Len(text) > Len(ENI_)
  /\ SubSeq(text, 1, Len(ENI_)) = ENI_
  /\ \A i \in Len(ENI_) + 1 .. Len(text) : text[i] \in Digit \cup Lower \cup Upper

\* The f-th of the texts that dots separate in an address.
Octet(text, o) ==
  LET dots == {i \in 1..Len(text) : text[i] = "."}
      before(i) == Cardinality({j \in dots : j < i})
      from == IF o = 1 THEN 1 ELSE (CHOOSE i \in dots : before(i) = o - 2) + 1
      to   == IF o = Cardinality(dots) + 1 THEN Len(text)
              ELSE (CHOOSE i \in dots : before(i) = o - 1) - 1
  IN  SubSeq(text, from, to)

\* Four groups of one to three digits, separated by dots.
IsDottedQuad(text) ==
  /\ Cardinality({i \in 1..Len(text) : text[i] = "."}) = 3
  /\ \A o \in 1..4 : IsInteger(Octet(text, o)) /\ Len(Octet(text, o)) <= 3

\* <version> <accountId> <interfaceId> <srcIp> <dstIp> <srcPort> <dstPort>
\* <protocol> <packets> <bytes> <start> <end> <action> <logStatus>
MatchesGrammar(line) ==
  /\ Cardinality(Spaces(line)) = 13
  /\ IsInteger(Field(line, 1))
  /\ IsInteger(Field(line, 2))
  /\ IsInterfaceId(Field(line, 3))
  /\ IsDottedQuad(Field(line, 4))
  /\ IsDottedQuad(Field(line, 5))
  /\ \A f \in 6..12 : IsInteger(Field(line, f))
  /\ Field(line, 13) \in {ACCEPT, REJECT}
  /\ Field(line, 14) \in {OK, NODATA, SKIPDATA}

\* The 14 fields of a parsed entry written in order, separated by spaces.
Reemit(data) ==
  JoinSpace(<<NumberToString(data.v["version"].v),
              NumberToString(data.v["account-id"].v),
              data.v["interface-id"].v, data.v["srcaddr"].v, data.v["destaddr"].v,
              NumberToString(data.v["srcport"].v),
              NumberToString(data.v["dstport"].v),
              NumberToString(data.v["protocol"].v),
              NumberToString(data.v["packets"].v),
              NumberToString(data.v["bytes"].v),
              NumberToString(data.v["start"].v),
              NumberToString(data.v["end"].v),
              data.v["action"].v, data.v["log-status"].v>>)

\* Every line a batch of the model can hold, the lines among them that match
\* the grammar, and the fields of each line.
InputLines   == Lines \cup WideLines
GrammarLines == {line \in InputLines : MatchesGrammar(line)}
FieldsOf ==
  [line \in InputLines |->
     [f \in 1 .. Cardinality(Spaces(line)) + 1 |-> Field(line, f)]]

\* The line of the i-th input record matches the grammar; its f-th field.
Grammatical(i) == LineOf(i) \in GrammarLines
FieldAt(i, f)  == FieldsOf[LineOf(i)][f]

Extracted == pc \notin {"start", "extract"}

-----------------------------------------------------------------------------
(* C8, C9: the parser *)

\* C8: for every line that matches the flow-log grammar, writing the 14
\* fields of the parsed entry in order, separated by spaces, gives the line
\* back.
C8_ReemitGivesTheLine ==
  Extracted =>
    \A i \in 1..Len(event) :
      Grammatical(i) /\ ~records[i].error
        => Reemit(records[i].data) = LineOf(i)

\* C9: extractRecords yields a parsed entry exactly for the lines that match
\* the flow-log grammar, and for every other line an error entry that carries
\* the payload of the input record unchanged.
C9_ParsedIffGrammar ==
  Extracted =>
    \A i \in 1..Len(event) :
      /\ records[i].id = event[i].recordId
      /\ records[i].error = ~Grammatical(i)
      /\ records[i].error => records[i].data = event[i].data

-----------------------------------------------------------------------------
(* What the claims about an invocation speak of *)

Done      == pc = "done"
Delivered == Done /\ callbacks[1].error = "null"

\* The record at i has been through lines 167-173 of the loop.
Looked(i) == idx > i \/ (idx = i /\ (pc = "geocode" \/ replies[i] # NoReply))
\* The record at i has been through the whole body of the loop.
Decorated(i) == idx > i

RateLimited(reply) == reply.kind = "response" /\ reply.statusCode = 403

\* A reply that is a failure of the provider: a transport error, a status
\* other than 200 and 403, a body that is no JSON.
ProviderFailed(reply) ==
  \/ reply.kind = "error"
  \/ reply.kind = "response" /\ reply.statusCode \notin {200, 403}
  \/ reply.kind = "response" /\ reply.statusCode = 200 /\ ~reply.body.json

NoProviderFailure == \A i \in 1..Len(event) : ~ProviderFailed(replies[i])
AllParse == \A i \in 1..Len(event) : Grammatical(i)

EmptyText == JStr(<<>>)
GeoTextKeys ==
  {"source-country-code", "source-country-name", "source-region-code",
   "source-region-name", "source-city"}

\* The geo fields of an object are the defaults: empty strings, lat and lon 0.
EmptyGeo(object) ==
  /\ \A k \in GeoTextKeys : Get(object, k) = EmptyText
  /\ Get(object, "source-location") = JObj(("lat" :> JNum(0)) @@ ("lon" :> JNum(0)))

\* The JSON value the payload of an Ok output record decodes to.
OkPayload(out) == out.data.v.b64.json

\* The i-th output record is the Ok record of the i-th input record.
IsOk(out, i) == out[i].recordId = event[i].recordId /\ out[i].result = "Ok"

\* The numeric value of the o-th octet of a dotted quad.
OctetValue(address, o) == Number(Octet(address, o))

\* 127.0.0.0/8, 10.0.0.0/8, 172.16.0.0/12, 192.168.0.0/16
InReservedRange(address) ==
  \/ OctetValue(address, 1) = 127
  \/ OctetValue(address, 1) = 10
  \/ OctetValue(address, 1) = 172 /\ OctetValue(address, 2) \in 16..31
  \/ OctetValue(address, 1) = 192 /\ OctetValue(address, 2) = 168

-----------------------------------------------------------------------------
(* C1, C2, C3, C5: what a completed invocation delivers *)

\* C1: when the interface enumeration succeeded and no geocode request
\* failed, every input record whose line does not match the grammar is in the
\* delivered batch as a ProcessingFailed record with the same recordId and
\* the original data, and the callback carries no error.
C1_MalformedIsProcessingFailed ==
  Done /\ ec2 = "resolved" /\ NoProviderFailure =>
    \A i \in 1..Len(event) :
      ~Grammatical(i) =>
        /\ callbacks[1].error = "null"
        /\ \E j \in 1..Len(callbacks[1].records) :
             callbacks[1].records[j] =
               [recordId |-> event[i].recordId, result |-> "ProcessingFailed",
                data |-> event[i].data]

\* C2: when the interface enumeration succeeded and no geocode request
\* failed, the invocation delivers a batch of the length of the input batch
\* that holds each input recordId exactly once, however many records parse.
C2_OneOutputPerInput ==
  Done /\ ec2 = "resolved" /\ NoProviderFailure =>
    /\ callbacks[1].error = "null"
    /\ Len(callbacks[1].records) = Len(event)
    /\ \A i \in 1..Len(event) :
         Cardinality({j \in 1..Len(callbacks[1].records) :
                        callbacks[1].records[j].recordId = event[i].recordId}) = 1

\* C3: when the interface enumeration succeeded and every record parses, a
\* failure of the geocode provider for a record does not fail the batch: the
\* batch is delivered and the record is Ok with empty geo fields.
C3_ProviderFailureAbsorbed ==
  Done /\ ec2 = "resolved" /\ AllParse =>
    /\ callbacks[1].error = "null"
    /\ \A i \in 1..Len(event) :
         ProviderFailed(replies[i]) =>
           /\ IsOk(callbacks[1].records, i)
           /\ EmptyGeo(OkPayload(callbacks[1].records[i]))

\* C5: when describeNetworkInterfaces fails the invocation still delivers one
\* record per input record (and the callback carries no error).
C5_EnumerationFailureAbsorbed ==
  Done /\ ec2 = "rejected" =>
    /\ callbacks[1].error = "null"
    /\ Len(callbacks[1].records) = Len(event)

-----------------------------------------------------------------------------
(* C4: the rate limit *)

-----------------------------------------------------------------------------
(* C6: which records the geocoder is called for *)

\* C6: no record gets more than one geocode request; a record gets none when
\* geolocation is disabled or its source address lies in 127.0.0.0/8,
\* 10.0.0.0/8, 172.16.0.0/12 or 192.168.0.0/16, and once the loop is past it
\* its geo fields are the empty defaults; a parsed record whose source
\* address lies outside those ranges has exactly one request once the loop
\* has reached its geocode step, when geolocation is enabled.
C6_GeocodeCalls ==
  \A i \in 1..Len(event) :
    /\ calls[i] <= 1
    /\ Grammatical(i) =>
         LET reserved == InReservedRange(FieldAt(i, 4))
         IN  /\ env = "false" \/ reserved =>
                  /\ calls[i] = 0
                  /\ ~(pc = "geocode" /\ idx = i)
                  /\ replies[i] = NoReply
                  /\ Extracted /\ Decorated(i) => EmptyGeo(records[i].data)
             /\ env # "false" /\ ~reserved =>
                  /\ calls[i] = (IF Extracted /\ Looked(i) THEN 1 ELSE 0)
                  /\ pc = "geocode" /\ idx = i => http = FieldAt(i, 4)

\* Geolocation is enabled and the loop is past two records: one with source
\* 172.31.0.1, which got no request, and one with source 172.32.0.1, which
\* got one.
C6_Witness ==
  /\ env = "true"
  /\ Len(event) = 2
  /\ idx > 2
  /\ \E i, j \in 1..2 :
       /\ FieldAt(i, 4) = Octets31 /\ calls[i] = 0
       /\ FieldAt(j, 4) = Octets32 /\ calls[j] = 1

-----------------------------------------------------------------------------
(* C7: security groups and direction *)

\* The indices of the addresses of an interface that are flagged primary.
PrimaryFlags(interface) ==
  {a \in 1..Len(interface.PrivateIpAddresses) : interface.PrivateIpAddresses[a].Primary}

\* C7: for a parsed record the loop has looked up: when an interface of the
\* enumeration has the interface-id of the record, the record carries the
\* group ids of that interface, and its direction is inbound exactly when the
\* interface has one address flagged primary and it is the destination
\* address of the record, else outbound; when no interface has that id the
\* record has neither security-group-ids nor direction.  Either way the
\* record is Ok in a delivered batch, with the same fields in its payload.
C7_GroupsAndDirection ==
  \A i \in 1..Len(event) :
    Extracted /\ Looked(i) /\ Grammatical(i) =>
      LET data == records[i].data
          hits == {n \in 1..Len(interfaces) :
                     interfaces[n].NetworkInterfaceId = FieldAt(i, 3)}
      IN  /\ hits = {} =>
                {"security-group-ids", "direction"} \cap DOMAIN data.v = {}
          /\ \A n \in hits :
               /\ Get(data, "security-group-ids") =
                    JArr([g \in 1..Len(interfaces[n].Groups) |->
                            interfaces[n].Groups[g].GroupId])
               /\ Get(data, "direction") =
                    JStr(IF \E a \in PrimaryFlags(interfaces[n]) :
                              /\ PrimaryFlags(interfaces[n]) = {a}
                              /\ interfaces[n].PrivateIpAddresses[a].PrivateIpAddress
                                   = FieldAt(i, 5)
                         THEN INBOUND ELSE OUTBOUND)
          /\ Delivered =>
               /\ IsOk(callbacks[1].records, i)
               /\ \A k \in {"security-group-ids", "direction"} :
                    Get(OkPayload(callbacks[1].records[i]), k) = Get(data, k)

\* A delivered batch with an inbound record, and a record of an interface
\* the enumeration does not hold.
C7_Witness ==
  /\ Delivered
  /\ \E i, j \in 1..Len(event) :
       /\ Get(OkPayload(callbacks[1].records[i]), "direction") = JStr(INBOUND)
       /\ FieldAt(j, 3) = EniB
       /\ \A n \in 1..Len(interfaces) : interfaces[n].NetworkInterfaceId # EniB
       /\ Get(OkPayload(callbacks[1].records[j]), "direction") = Undefined

-----------------------------------------------------------------------------
(* C10: the callback *)

\* Every input record has its output record, Ok or ProcessingFailed.
Complete(out) ==
  /\ Len(out) = Len(event)
  /\ \A i \in 1..Len(event) :
       /\ out[i].recordId = event[i].recordId
       /\ out[i].result \in {"Ok", "ProcessingFailed"}

\* C10: every invocation comes to its end, the callback is invoked exactly
\* once, when the invocation ends, and it carries either an error or a batch
\* that holds an output record for every input record.
C10_CallbackExactlyOnce ==
  /\ <>Done
  /\ [](Len(callbacks) = (IF Done THEN 1 ELSE 0))
  /\ [](Done => callbacks[1].error # "null" \/ Complete(callbacks[1].records))

\* A batch of two records has been delivered.
C10_Witness == Delivered /\ Len(event) = 2 /\ Complete(callbacks[1].records)

-----------------------------------------------------------------------------
(* C11: the geocode requests of one batch *)

\* The loop geocodes the record at i: geolocation is enabled, the line
\* parses and its source address is outside the reserved ranges.
NeedsGeocode(i) ==
  /\ i <= Len(event)
  /\ env # "false"
  /\ Grammatical(i)
  /\ ~InReservedRange(FieldAt(i, 4))

\* Batches of lines with a public source address, and one with a private one.
StuckLines ==
  {JoinSpace(Fields(EniA, Public, Addr5)),
   JoinSpace(Fields(EniA, Octets32, Addr5)),
   JoinSpace(Fields(EniA, Private, Addr5))}
StuckInit == Idle(Batches(StuckLines))

\* Every step of the invocation but the reply of the geocode provider.
Scheduled ==
  \/ Handler
  \/ ExtractRecords
  \/ DescribeResolve
  \/ DescribeReject
  \/ DecorateRecord
  \/ PackageRecords
  \/ Callback

\* The event loop runs every continuation that is ready and the EC2 call
\* completes, but a geocode request may stay without an answer (http.get of
\* geocode.js line 40 sets no timeout).
StuckSpec == StuckInit /\ [][Next]_vars /\ WF_vars(Scheduled)

\* C11: the geocode requests of a batch do not wait for one another: once the
\* enumeration has resolved and every record parses, each record that needs
\* geocoding gets its request (or the invocation ends), whether or not the
\* requests of the other records are ever answered.
C11_StuckCallDelaysOnlyItsRecord ==
  \A j \in 1..MaxBatch :
    (ec2 = "resolved" /\ AllParse /\ NeedsGeocode(j)) ~> (Done \/ (j <= Len(event) /\ calls[j] = 1))

-----------------------------------------------------------------------------
(* C12: the order of the stages *)

\* The record at i carries a field decorateRecords sets.
Enriched(i) ==
  \E k \in {"security-group-ids", "direction", "source-location"} :
    Get(records[i].data, k) # Undefined

\* C12: the enumeration request is out while the batch is parsed and is
\* still unanswered when the parsing is over (neither waits for the other);
\* the loop of decorateRecords runs, and a record is enriched, only once the
\* enumeration has resolved and the batch is parsed; packageRecords has run
\* only when the loop is past every record, no geocode request is in flight
\* and every request issued has its reply.
C12_StagesInOrder ==
  /\ pc \in {"extract", "all"} => ec2 = "pending"
  /\ pc = "extract" => records = <<>>
  /\ idx >= 1 \/ pc \in {"decorate", "geocode", "package"} =>
       ec2 = "resolved" /\ Extracted /\ Len(records) = Len(event)
  /\ \A i \in 1..Len(records) :
       Enriched(i) => ec2 = "resolved" /\ idx >= i
  /\ pc = "package" \/ Delivered =>
       /\ idx > Len(event)
       /\ http = <<>>
       /\ \A i \in 1..Len(event) : calls[i] = 1 => replies[i] # NoReply

\* packageRecords has run on a batch of two records, each of them geocoded.
C12_Witness ==
  /\ pc = "package"
  /\ Len(event) = 2
  /\ \A i \in 1..2 : calls[i] = 1 /\ replies[i] # NoReply /\ Enriched(i)

-----------------------------------------------------------------------------
(* C14: the geo fields of an Ok record *)

\* The five geo texts of an object are strings, and its source-location
\* holds a numeric lat and a numeric lon.
HasGeoInfo(object) ==
  /\ \A k \in GeoTextKeys : Get(object, k).t = "string"
  /\ Get(Get(object, "source-location"), "lat").t = "number"
  /\ Get(Get(object, "source-location"), "lon").t = "number"

\* C14: every Ok record of a delivered batch carries the complete geo block,
\* whatever the geocode provider answered for it: five strings and a
\* source-location with numeric lat and lon.
C14_OkHasGeoInfo ==
  Delivered =>
    \A i \in 1..Len(callbacks[1].records) :
      callbacks[1].records[i].result = "Ok" =>
        HasGeoInfo(OkPayload(callbacks[1].records[i]))

-----------------------------------------------------------------------------
(* The ingestor, src/unnamed/part_000 *)

decoratorVars ==
  <<event, env, pc, ec2, interfaces, mapping, records, idx, http, calls, replies,
    output, callbacks>>

\* Line 84: records.length > 499.
BatchLimit == 499

MaxFew  == 2   \* the small payloads hold up to MaxFew events
MaxOver == 2   \* the large ones up to BatchLimit + MaxOver events

\* The properties of this inside createRecordsFromEvents.  The function is
\* an arrow function of the module's top level, and so are the callbacks of
\* lines 69 and 72: this is the module's exports object (the thisArg of line
\* 88 does not bind an arrow function), whose one property is handler
\* (line 124); putRecords is a const of the module, not a property of it.
This == {"handler"}

\* logData.logEvents: n events, the i-th with message i, those at the
\* positions controls being control messages.
LogEvents(n, controls) ==
  [i \in 1..n |->
     [messageType |-> IF i \in controls THEN "CONTROL_MESSAGE" ELSE "DATA_MESSAGE",
      message     |-> NumberToString(i)]]

\* The payloads: what gunzip and JSON.parse make of event.awslogs.data.
Payloads ==
  {[gzip |-> TRUE, json |-> TRUE, logEvents |-> JArr(LogEvents(n, controls))] :
     n \in (0..MaxFew) \cup (BatchLimit .. BatchLimit + MaxOver),
     controls \in SUBSET {1, 2}}
  \cup {[gzip |-> FALSE, json |-> FALSE, logEvents |-> Undefined],
        [gzip |-> TRUE,  json |-> FALSE, logEvents |-> Undefined],
        [gzip |-> TRUE,  json |-> TRUE,  logEvents |-> Undefined]}

IngestorInit ==
  /\ awslogs \in Payloads
  /\ ipc = "start"
  /\ position = 0
  /\ firehose = <<>>
  /\ putCalls = <<>>
  /\ context = <<>>
  /\ event = <<>>
  /\ env = "true"
  /\ pc = "idle"
  /\ ec2 = "idle"
  /\ interfaces = <<>>
  /\ mapping = <<>>
  /\ records = <<>>
  /\ idx = 0
  /\ http = <<>>
  /\ calls = <<>>
  /\ replies = <<>>
  /\ output = <<>>
  /\ callbacks = <<>>

\* .catch of lines 137-140: context.fail(error).
ContextFail(error) ==
  /\ context' = Append(context, [call |-> "fail", error |-> error])
  /\ ipc' = "done"

\* Lines 125-126: the payload is handed to zlib.gunzip.
IngestorHandler ==
  /\ ipc = "start"
  /\ ipc' = "gunzip"
  /\ UNCHANGED <<awslogs, position, firehose, putCalls, context, decoratorVars>>

\* Lines 102-108 and 127-130: gunzip calls back; on an error the promise is
\* rejected, else the data is parsed and createRecordsFromEvents is entered:
\* JSON.parse may throw, and so does forEach of an undefined logEvents.
GunzipCallback ==
  /\ ipc = "gunzip"
  /\ IF ~awslogs.gzip
     THEN ContextFail("gunzip") /\ UNCHANGED position
     ELSE IF ~awslogs.json
     THEN ContextFail("SyntaxError") /\ UNCHANGED position
     ELSE IF awslogs.logEvents.t # "array"
     THEN ContextFail("TypeError") /\ UNCHANGED position
     ELSE /\ ipc' = "forEach"
          /\ position' = 1
          /\ UNCHANGED context
  /\ UNCHANGED <<awslogs, firehose, putCalls, decoratorVars>>

\* putRecords(records), lines 45-60: one putRecordBatch call is made; its
\* callback comes later.
putRecords(recs) == Append(putCalls, [Records |-> recs, state |-> "pending"])

\* Lines 72-88 for the event at position.  Nothing else runs between two
\* events: forEach is synchronous.  this.putRecords(records) of line 85 is
\* the call of a property this lacks: a TypeError, thrown inside the executor
\* of line 69, which rejects the promise.
ForEachEvent ==
  /\ ipc = "forEach"
  /\ position <= Len(awslogs.logEvents.v)
  /\ LET logEvent == awslogs.logEvents.v[position]
         pushed   == Append(firehose, [Data |-> logEvent.message \o <<"\n">>])
     IN  IF logEvent.messageType = "CONTROL_MESSAGE"
         THEN /\ position' = position + 1
              /\ UNCHANGED <<firehose, putCalls, context, ipc>>
         ELSE IF Len(pushed) > BatchLimit
         THEN IF "putRecords" \in This
              THEN /\ putCalls' = putRecords(pushed)
                   /\ firehose' = <<>>
                   /\ position' = position + 1
                   /\ UNCHANGED <<context, ipc>>
              ELSE /\ ContextFail("TypeError")
                   /\ firehose' = pushed
                   /\ UNCHANGED <<position, putCalls>>
         ELSE /\ firehose' = pushed
              /\ position' = position + 1
              /\ UNCHANGED <<putCalls, context, ipc>>
  /\ UNCHANGED <<awslogs, decoratorVars>>

\* Lines 90 and 131-136: forEach is over, the promise resolves with records;
\* what is left is put, and context.succeed is called at once.
ThenSucceed ==
  /\ ipc = "forEach"
  /\ position > Len(awslogs.logEvents.v)
  /\ putCalls' = IF Len(firehose) > 0 THEN putRecords(firehose) ELSE putCalls
  /\ context' = Append(context, [call |-> "succeed", error |-> "null"])
  /\ ipc' = "done"
  /\ UNCHANGED <<awslogs, position, firehose, decoratorVars>>

\* The callback of putRecordBatch that also fails the invocation on an error.
PutCallbackFailing ==
  \E k \in 1..Len(putCalls) :
    /\ putCalls[k].state = "pending"
    /\ \E outcome \in {"ok", "error"} :
         /\ putCalls' = [putCalls EXCEPT ![k].state = outcome]
         /\ context' = IF outcome = "error"
                       THEN Append(context, [call |-> "fail", error |-> "putRecordBatch"])
                       ELSE context
    /\ UNCHANGED <<awslogs, ipc, position, firehose, decoratorVars>>

\* Lines 52-59: Firehose answers a putRecordBatch call; the callback logs the
\* error or the success.
PutCallback ==
  \E k \in 1..Len(putCalls) :
    /\ putCalls[k].state = "pending"
    /\ \E outcome \in {"ok", "error"} :
         putCalls' = [putCalls EXCEPT ![k].state = outcome]
    /\ UNCHANGED <<awslogs, ipc, position, firehose, context, decoratorVars>>

IngestorNext ==
  \/ IngestorHandler
  \/ GunzipCallback
  \/ ForEachEvent
  \/ ThenSucceed
  \/ PutCallback

IngestorSpec == IngestorInit /\ [][IngestorNext]_vars

-----------------------------------------------------------------------------
(* C13, C15: what the ingestor hands to Firehose and how it ends *)

\* The payload gunzips, parses and holds an array of events.
Readable == awslogs.gzip /\ awslogs.json /\ awslogs.logEvents.t = "array"

\* The positions of the events that are no control messages.
DataEvents ==
  {i \in 1..Len(awslogs.logEvents.v) :
     awslogs.logEvents.v[i].messageType # "CONTROL_MESSAGE"}

\* The places <<call, index>> of the records handed to putRecordBatch.
PutPlaces == {<<k, r>> \in (1..Len(putCalls)) \X (1..(BatchLimit + 1)) :
                r <= Len(putCalls[k].Records)}

\* The record at a place is the one of the event at i: its message and a
\* newline.
IsRecordOf(place, i) ==
  putCalls[place[1]].Records[place[2]] =
    [Data |-> awslogs.logEvents.v[i].message \o <<"\n">>]

\* C13: for a payload that can be read, with any number of events, the
\* invocation ends with context.succeed, no putRecordBatch call carries more
\* than 500 records, every event that is no control message is in the
\* records put exactly once, and nothing else is put.
C13_EveryEventPutOnce ==
  ipc = "done" /\ Readable =>
    /\ context = <<[call |-> "succeed", error |-> "null"]>>
    /\ \A k \in 1..Len(putCalls) : Len(putCalls[k].Records) <= BatchLimit + 1
    /\ \A i \in DataEvents :
         Cardinality({place \in PutPlaces : IsRecordOf(place, i)}) = 1
    /\ \A place \in PutPlaces : \E i \in DataEvents : IsRecordOf(place, i)

\* C15: context is called once, when the invocation ends; a step that ends
\* the loop of createRecordsFromEvents calls context.succeed while the
\* putRecordBatch call it makes is still unanswered; the answer of a
\* putRecordBatch call, error or not, changes neither context nor the state
\* of the invocation; and context.fail carries an error of gunzip, of
\* JSON.parse or of createRecordsFromEvents only.
C15_PutOutcomeIsIgnored ==
  /\ [](Len(context) = (IF ipc = "done" THEN 1 ELSE 0))
  /\ [](\A c \in 1..Len(context) :
          context[c].call = "fail" =>
            context[c].error \in {"gunzip", "SyntaxError", "TypeError"})
  /\ [][ipc = "forEach" /\ position > Len(awslogs.logEvents.v) =>
          /\ context' = <<[call |-> "succeed", error |-> "null"]>>
          /\ \A k \in 1..Len(putCalls') :
               k > Len(putCalls) => putCalls'[k].state = "pending"]_vars
  /\ [][(\E k \in 1..Len(putCalls) :
            putCalls[k].state = "pending" /\ putCalls'[k].state # "pending")
          => UNCHANGED <<context, ipc>>]_vars

\* The invocation has succeeded and its putRecordBatch call has failed.
C15_Witness ==
  /\ ipc = "done"
  /\ context = <<[call |-> "succeed", error |-> "null"]>>
  /\ \E k \in 1..Len(putCalls) : putCalls[k].state = "error"

=============================================================================
